---------------------------- MODULE Spec2Model ----------------------------
(***************************************************************************)
(* A model of the ADC-to-UART firmware:                                    *)
(*   - _sbrk, the newlib heap hook of ECE198Project/Core/Src/sysmem.c      *)
(*   - main, the acquisition loop of Core/Src/main.c                       *)
(* Pointers are PtrBits wide and pointer arithmetic wraps modulo           *)
(* 2^PtrBits, as the 32-bit target's does modulo 2^32.                     *)
(***************************************************************************)
EXTENDS Integers, Sequences, FiniteSets

VARIABLES
    \* ---- sysmem.c ----
    _end,               \* address of the linker symbol _end
    _estack,            \* address of the linker symbol _estack
    _Min_Stack_Size,    \* the uint32_t read from the symbol _Min_Stack_Size
    __sbrk_heap_end,    \* static uint8_t *__sbrk_heap_end
    errno,              \* errno of <errno.h>
    ret,                \* what the last call of _sbrk returned
    incr,               \* the argument of the last call of _sbrk
    heap_at_entry,      \* __sbrk_heap_end as the last call found it
    call,               \* "none", "first" or "later": which call the last one was
    \* ---- main.c ----
    pc,                 \* the statement main() is about to execute
    hal_ret,            \* the status each HAL call last returned
    adc_dr,             \* the converter's data register
    adc_value,          \* uint32_t adc_value
    msg,                \* char msg[20], up to its NUL
    conversions,        \* the results of the successful conversion waits
    uart_tx,            \* the byte strings handed to HAL_UART_Transmit
    delays              \* the arguments of the calls of HAL_Delay

sbrk_vars == <<_end, _estack, _Min_Stack_Size, __sbrk_heap_end, errno, ret,
               incr, heap_at_entry, call>>
main_vars == <<pc, hal_ret, adc_dr, adc_value, msg, conversions, uart_tx, delays>>
vars == <<sbrk_vars, main_vars>>

---------------------------------------------------------------------------
(* Bounds *)

PtrBits == 3
MaxLines == 3

---------------------------------------------------------------------------
(* sysmem.c *)

AddrSpace == 2 ^ PtrBits
Addr == 0 .. (AddrSpace - 1)

\* ptrdiff_t: a signed integer as wide as a pointer
PtrDiff == (0 - (AddrSpace \div 2)) .. ((AddrSpace \div 2) - 1)

NULL == 0
NoErrno == 0
ENOMEM == 12

\* (void *)-1
SBRK_FAILED == AddrSpace - 1

\* p + i on a pointer: the target adds the two words and keeps the low bits
PtrAdd(p, i) == (p + i) % AddrSpace

\* stack_limit = estack_addr - (uintptr_t)_Min_Stack_Size, in uintptr_t
StackLimitNoReserve(estack, min_stack) == estack
StackLimit(estack, min_stack) == (estack - min_stack) % AddrSpace

\* if (__sbrk_heap_end == NULL) __sbrk_heap_end = &_end;
HeapInit(heap, end) == IF heap = NULL THEN end ELSE heap

\* (__sbrk_heap_end + incr) > max_heap, an unsigned comparison of addresses
OverLimitOffByOne(heap, i, max_heap) == PtrAdd(heap, i) >= max_heap
OverLimit(heap, i, max_heap) == PtrAdd(heap, i) > max_heap

\* the failure path: the heap end the call leaves behind
HeapOnFailureAdvances(heap, i) == PtrAdd(heap, i)
HeapOnFailure(heap, i) == heap

\* __sbrk_heap_end += incr;
AdvanceWrongSign(heap, i) == PtrAdd(heap, 0 - i)
Advance(heap, i) == PtrAdd(heap, i)

\* prev_heap_end = __sbrk_heap_end; ... return (void *)prev_heap_end;
GrantedNewEnd(prev_heap_end, new_heap_end) == new_heap_end
Granted(prev_heap_end, new_heap_end) == prev_heap_end

_sbrk(i) ==
    LET max_heap == StackLimit(_estack, _Min_Stack_Size)
        heap == HeapInit(__sbrk_heap_end, _end)
    IN  /\ incr' = i
        /\ heap_at_entry' = __sbrk_heap_end
        /\ call' = IF call = "none" THEN "first" ELSE "later"
        /\ IF OverLimit(heap, i, max_heap)
           THEN /\ errno' = ENOMEM
                /\ ret' = SBRK_FAILED
                /\ __sbrk_heap_end' = HeapOnFailure(heap, i)
           ELSE /\ ret' = Granted(heap, Advance(heap, i))
                /\ __sbrk_heap_end' = Advance(heap, i)
                /\ errno' = errno
        /\ UNCHANGED <<_end, _estack, _Min_Stack_Size>>
        /\ UNCHANGED main_vars

Sbrk == \E i \in PtrDiff : _sbrk(i)

---------------------------------------------------------------------------
(* main.c *)

HAL_OK == "HAL_OK"
HAL_StatusTypeDef == {"HAL_OK", "HAL_ERROR", "HAL_BUSY", "HAL_TIMEOUT"}

\* uint32_t, kept as two 16-bit halves <<high, low>>
Half == 65536
U32(hi, lo) == <<hi, lo>>

\* the conversion results the model feeds the loop
Samples == { U32(0, 0), U32(0, 9), U32(0, 100), U32(0, 2048), U32(0, 4095),
             U32(15258, 51712), U32(65535, 65535) }

MsgSize == 20
DelayMs == 50

\* "ADC: " and "\r\n" as character codes
Prefix == <<65, 68, 67, 58, 32>>
CRLF == <<13, 10>>

Min(a, b) == IF a < b THEN a ELSE b

\* v / 10 and v % 10 of a uint32_t, by long division over its halves
DivTen(v) == LET r == (v[1] % 10) * Half + v[2]
             IN  U32(v[1] \div 10, r \div 10)
ModTen(v) == ((v[1] % 10) * Half + v[2]) % 10

\* %lu: the decimal digits of v, most significant first, no leading zero
RECURSIVE FormatUnsigned(_)
FormatUnsigned(v) ==
    IF v[1] = 0 /\ v[2] < 10
    THEN <<48 + v[2]>>
    ELSE Append(FormatUnsigned(DivTen(v)), 48 + ModTen(v))

\* snprintf(msg, size, "ADC: %lu\r\n", v): at most size - 1 characters, then NUL
SnprintfShortInt(size, v) ==
    LET full == Prefix \o FormatUnsigned(U32(0, v[2])) \o CRLF
    IN  SubSeq(full, 1, Min(Len(full), size - 1))
Snprintf(size, v) ==
    LET full == Prefix \o FormatUnsigned(v) \o CRLF
    IN  SubSeq(full, 1, Min(Len(full), size - 1))

\* strlen(msg)
Strlen(s) == Len(s)

\* Error_Handler(): while (1) {}, the call never returns to `back`
ErrorHandlerReturns(back) == back
Error_Handler_Call(back) == "Error_Handler"

\* a call returning HAL_StatusTypeDef that main() checks against HAL_OK
Failed(st) == st # HAL_OK

LoopPcs == {"HAL_ADC_PollForConversion", "HAL_ADC_GetValue", "snprintf",
            "HAL_UART_Transmit", "HAL_Delay"}

\* a step of main() that changes nothing the model tracks
Step(from, to) ==
    /\ pc = from
    /\ pc' = to
    /\ UNCHANGED <<hal_ret, adc_dr, adc_value, msg, conversions, uart_tx, delays>>
    /\ UNCHANGED sbrk_vars

HAL_Init == Step("HAL_Init", "SystemClock_Config")
SystemClock_Config == Step("SystemClock_Config", "MX_GPIO_Init")
MX_GPIO_Init == Step("MX_GPIO_Init", "HAL_ADC_Init")

\* a checked initialisation call: if (f(...) != HAL_OK) Error_Handler();
InitCall(name, next) ==
    /\ pc = name
    /\ \E st \in HAL_StatusTypeDef :
          /\ hal_ret' = [hal_ret EXCEPT ![name] = st]
          /\ pc' = IF Failed(st) THEN Error_Handler_Call(next) ELSE next
    /\ UNCHANGED <<adc_dr, adc_value, msg, conversions, uart_tx, delays>>
    /\ UNCHANGED sbrk_vars

HAL_ADC_Init == InitCall("HAL_ADC_Init", "HAL_ADC_ConfigChannel")
HAL_ADC_ConfigChannel == InitCall("HAL_ADC_ConfigChannel", "HAL_UART_Init")
HAL_UART_Init == InitCall("HAL_UART_Init", "HAL_ADC_Start")

\* HAL_ADC_Start(&hadc1); the status is dropped
HAL_ADC_Start ==
    /\ pc = "HAL_ADC_Start"
    /\ \E st \in HAL_StatusTypeDef :
          hal_ret' = [hal_ret EXCEPT !["HAL_ADC_Start"] = st]
    /\ pc' = "HAL_ADC_PollForConversion"
    /\ UNCHANGED <<adc_dr, adc_value, msg, conversions, uart_tx, delays>>
    /\ UNCHANGED sbrk_vars

\* where a failed conversion wait leaves the loop
AfterFailedPollFatal == "Error_Handler"
AfterFailedPoll == "HAL_ADC_PollForConversion"

\* if (HAL_ADC_PollForConversion(&hadc1, HAL_MAX_DELAY) == HAL_OK) { ... }
HAL_ADC_PollForConversion ==
    /\ pc = "HAL_ADC_PollForConversion"
    /\ \/ /\ Len(conversions) < MaxLines
          /\ \E v \in Samples :
                /\ adc_dr' = v
                /\ conversions' = Append(conversions, v)
          /\ hal_ret' = [hal_ret EXCEPT !["HAL_ADC_PollForConversion"] = HAL_OK]
          /\ pc' = "HAL_ADC_GetValue"
       \/ /\ \E st \in HAL_StatusTypeDef \ {HAL_OK} :
                hal_ret' = [hal_ret EXCEPT !["HAL_ADC_PollForConversion"] = st]
          /\ pc' = AfterFailedPoll
          /\ UNCHANGED <<adc_dr, conversions>>
    /\ UNCHANGED <<adc_value, msg, uart_tx, delays>>
    /\ UNCHANGED sbrk_vars

\* what HAL_ADC_GetValue reads
StaleValue(dr, old) == IF old = "unset" THEN dr ELSE old
ReadValue(dr, old) == dr

\* adc_value = HAL_ADC_GetValue(&hadc1);
HAL_ADC_GetValue ==
    /\ pc = "HAL_ADC_GetValue"
    /\ adc_value' = ReadValue(adc_dr, adc_value)
    /\ pc' = "snprintf"
    /\ UNCHANGED <<hal_ret, adc_dr, msg, conversions, uart_tx, delays>>
    /\ UNCHANGED sbrk_vars

\* snprintf(msg, sizeof(msg), "ADC: %lu\r\n", adc_value);
snprintf ==
    /\ pc = "snprintf"
    /\ msg' = Snprintf(MsgSize, adc_value)
    /\ pc' = "HAL_UART_Transmit"
    /\ UNCHANGED <<hal_ret, adc_dr, adc_value, conversions, uart_tx, delays>>
    /\ UNCHANGED sbrk_vars

\* HAL_UART_Transmit(&huart2, (uint8_t*)msg, strlen(msg), HAL_MAX_DELAY);
HAL_UART_Transmit ==
    /\ pc = "HAL_UART_Transmit"
    /\ uart_tx' = Append(uart_tx, SubSeq(msg, 1, Strlen(msg)))
    /\ pc' = "HAL_Delay"
    /\ UNCHANGED <<hal_ret, adc_dr, adc_value, msg, conversions, delays>>
    /\ UNCHANGED sbrk_vars

\* HAL_Delay(50);
HAL_Delay ==
    /\ pc = "HAL_Delay"
    /\ delays' = Append(delays, DelayMs)
    /\ pc' = "HAL_ADC_PollForConversion"
    /\ UNCHANGED <<hal_ret, adc_dr, adc_value, msg, conversions, uart_tx>>
    /\ UNCHANGED sbrk_vars

\* void Error_Handler(void) { while (1) { } }
Error_Handler ==
    /\ pc = "Error_Handler"
    /\ UNCHANGED vars

---------------------------------------------------------------------------
(* Specifications *)

\* the reset state of sysmem.c
SbrkReset ==
    /\ __sbrk_heap_end = NULL
    /\ errno = NoErrno
    /\ ret = "none"
    /\ incr = "none"
    /\ heap_at_entry = "none"
    /\ call = "none"

\* the reset state of main.c
MainReset ==
    /\ pc = "HAL_Init"
    /\ hal_ret = [f \in {"HAL_ADC_Init", "HAL_ADC_ConfigChannel", "HAL_UART_Init",
                         "HAL_ADC_Start", "HAL_ADC_PollForConversion"} |-> "none"]
    /\ adc_dr = U32(0, 0)
    /\ adc_value = "unset"
    /\ msg = "unset"
    /\ conversions = <<>>
    /\ uart_tx = <<>>
    /\ delays = <<>>

\* the RAM layout the comment of _sbrk documents:
\*   RAM start .. _end | newlib heap | MSP stack of _Min_Stack_Size | _estack
LayoutDocumented ==
    /\ _end \in Addr \ {NULL}
    /\ _estack \in Addr
    /\ _Min_Stack_Size \in Addr \ {0}
    /\ _end + _Min_Stack_Size <= _estack

\* any placement of the linker symbols: _end and _estack anywhere, and a
\* reserve of nothing, one byte, half the address space or all but one byte
MinStackAny == {0, 1, AddrSpace \div 2, AddrSpace - 1}
LayoutAny ==
    /\ _end \in Addr
    /\ _estack \in Addr
    /\ _Min_Stack_Size \in MinStackAny

Init == LayoutDocumented /\ SbrkReset /\ MainReset
Next == Sbrk
Spec == Init /\ [][Next]_vars

InitAnyLink == LayoutAny /\ SbrkReset /\ MainReset
NextAnyLink == Sbrk
SpecAnyLink == InitAnyLink /\ [][NextAnyLink]_vars

InitMain ==
    /\ _end = 1 /\ _estack = AddrSpace - 1 /\ _Min_Stack_Size = 1
    /\ SbrkReset /\ MainReset
NextMain ==
    \/ HAL_Init
    \/ SystemClock_Config
    \/ MX_GPIO_Init
    \/ HAL_ADC_Init
    \/ HAL_ADC_ConfigChannel
    \/ HAL_UART_Init
    \/ HAL_ADC_Start
    \/ HAL_ADC_PollForConversion
    \/ HAL_ADC_GetValue
    \/ snprintf
    \/ HAL_UART_Transmit
    \/ HAL_Delay
    \/ Error_Handler
SpecMain == InitMain /\ [][NextMain]_vars

---------------------------------------------------------------------------
(* Properties of _sbrk.  They are stated over the last call: its argument   *)
(* incr, the pointer it found (heap_at_entry), what it returned (ret) and   *)
(* the state it left.                                                       *)

Called == call # "none"

\* the heap end a call works from: the baseline _end while the stored
\* pointer is still unset
HeapEndSeen == IF heap_at_entry = 0 THEN _end ELSE heap_at_entry

\* the boundary reserved for the stack, as an address
Boundary == (_estack - _Min_Stack_Size) % AddrSpace

\* the address heap end + incr, as an address of the machine
Target == (HeapEndSeen + incr) % AddrSpace

C3_FailureLeavesStoredPointer ==
    (Called /\ ret = SBRK_FAILED) => __sbrk_heap_end = heap_at_entry

\* C3, amended: a failing call leaves the stored pointer as it found it,
\* except that a call that found it NULL leaves it at the baseline _end; and
\* repeating a failing call fails again and changes nothing.
C3_FailureKeepsHeapEnd ==
    /\ []((Called /\ ret = SBRK_FAILED) =>
            /\ __sbrk_heap_end = HeapEndSeen
            /\ (heap_at_entry # 0 => __sbrk_heap_end = heap_at_entry))
    /\ [][(Called /\ ret = SBRK_FAILED /\ incr' = incr) =>
            /\ ret' = SBRK_FAILED
            /\ errno' = errno
            /\ __sbrk_heap_end' = __sbrk_heap_end
            /\ heap_at_entry' = __sbrk_heap_end]_vars

C3_Witness ==
    /\ call = "later"
    /\ ret = SBRK_FAILED
    /\ heap_at_entry # 0
    /\ heap_at_entry # _end
    /\ __sbrk_heap_end = heap_at_entry

\* C4, as claimed: for any values of the linker symbols the heap end never
\* exceeds the boundary _estack - _Min_Stack_Size.
C4_NeverAboveBoundary ==
    __sbrk_heap_end <= Boundary

\* C4, amended: the heap end never exceeds the boundary when the baseline
\* _end itself lies at or below it, and never exceeds the larger of the two.
C4_NeverAboveBoundaryFromBelow ==
    /\ (_end <= Boundary) => (__sbrk_heap_end <= Boundary)
    /\ __sbrk_heap_end <= (IF _end <= Boundary THEN Boundary ELSE _end)

C4_Witness ==
    /\ call = "later"
    /\ _Min_Stack_Size > 0
    /\ _end < Boundary
    /\ incr > 0
    /\ ret # SBRK_FAILED
    /\ __sbrk_heap_end = Boundary

C10_BaselineOnFirstCallOnly ==
    /\ (call = "first" /\ ret # SBRK_FAILED)
          => (ret = _end /\ __sbrk_heap_end = (_end + incr) % AddrSpace)
    /\ (call = "later") => heap_at_entry # 0

---------------------------------------------------------------------------
(* Properties of main *)

Digit == 48 .. 57

\* the value a string of decimal digits denotes, as a uint32_t in halves
RECURSIVE ParseDecimal(_)
ParseDecimal(ds) ==
    IF ds = <<>>
    THEN <<0, 0>>
    ELSE LET hd == ParseDecimal(SubSeq(ds, 1, Len(ds) - 1))
             lo == hd[2] * 10 + (ds[Len(ds)] - 48)
         IN  <<hd[1] * 10 + (lo \div 65536), lo % 65536>>

\* line is "ADC: ", the decimal digits of v, "\r\n"
IsLineOf(line, v) ==
    LET n == Len(line)
        digits == SubSeq(line, 6, n - 2)
    IN  /\ n >= 8
        /\ SubSeq(line, 1, 5) = <<65, 68, 67, 58, 32>>
        /\ SubSeq(line, n - 1, n) = <<13, 10>>
        /\ \A k \in 1 .. Len(digits) : digits[k] \in Digit
        /\ (Len(digits) > 1 => digits[1] # 48)
        /\ ParseDecimal(digits) = v

\* C6: every line handed to the transmitter is "ADC: ", the decimal digits
\* of the sample read, "\r\n", and with its NUL it fits the 20-byte buffer.
C6_LineIsPrefixDecimalCRLF ==
    /\ Len(uart_tx) <= Len(conversions)
    /\ \A k \in 1 .. Len(uart_tx) :
          /\ IsLineOf(uart_tx[k], conversions[k])
          /\ Len(uart_tx[k]) + 1 <= 20

C6_Witness ==
    \E k \in 1 .. Len(uart_tx) :
        /\ conversions[k] = <<65535, 65535>>
        /\ uart_tx[k] = <<65, 68, 67, 58, 32,
                          52, 50, 57, 52, 57, 54, 55, 50, 57, 53, 13, 10>>

\* the statement that follows each statement of the loop body
LoopSuccessor(p) ==
    CASE p = "HAL_ADC_PollForConversion" -> "HAL_ADC_GetValue"
      [] p = "HAL_ADC_GetValue" -> "snprintf"
      [] p = "snprintf" -> "HAL_UART_Transmit"
      [] p = "HAL_UART_Transmit" -> "HAL_Delay"
      [] p = "HAL_Delay" -> "HAL_ADC_PollForConversion"

\* C7: conversion and output run in lock-step: one line per conversion
\* result, in the order of the results, each followed by the 50 ms delay
\* before the next wait; the loop runs wait, read, transmit, delay, wait.
C7_LockStep ==
    /\ [](LET n == Len(conversions)
              done == IF pc \in {"HAL_ADC_GetValue", "snprintf", "HAL_UART_Transmit"}
                      THEN n - 1 ELSE n
              waited == IF pc \in {"HAL_ADC_GetValue", "snprintf",
                                   "HAL_UART_Transmit", "HAL_Delay"}
                        THEN n - 1 ELSE n
          IN  /\ Len(uart_tx) = done
              /\ Len(delays) = waited
              /\ \A k \in 1 .. Len(uart_tx) : IsLineOf(uart_tx[k], conversions[k])
              /\ \A k \in 1 .. Len(delays) : delays[k] = 50)
    /\ [][(pc \in LoopPcs /\ pc' # pc) => pc' = LoopSuccessor(pc)]_vars

C7_Witness ==
    /\ pc = "HAL_ADC_PollForConversion"
    /\ conversions = << <<0, 100>>, <<0, 2048>>, <<0, 4095>> >>
    /\ uart_tx = << <<65, 68, 67, 58, 32, 49, 48, 48, 13, 10>>,
                    <<65, 68, 67, 58, 32, 50, 48, 52, 56, 13, 10>>,
                    <<65, 68, 67, 58, 32, 52, 48, 57, 53, 13, 10>> >>
    /\ delays = <<50, 50, 50>>

InitCalls == <<"HAL_ADC_Init", "HAL_ADC_ConfigChannel", "HAL_UART_Init">>
InitFailedAt(k) == hal_ret[InitCalls[k]] \notin {"none", "HAL_OK"}

\* C8: once an initialisation call has returned other than HAL_OK the
\* program is in Error_Handler: no later initialisation call has run, the
\* conversion has not been started, and nothing has been waited for, read,
\* transmitted or delayed.
C8_InitFailureHalts ==
    \A k \in 1 .. 3 :
        InitFailedAt(k) =>
            /\ pc = "Error_Handler"
            /\ \A j \in (k + 1) .. 3 : hal_ret[InitCalls[j]] = "none"
            /\ hal_ret["HAL_ADC_Start"] = "none"
            /\ hal_ret["HAL_ADC_PollForConversion"] = "none"
            /\ adc_value = "unset"
            /\ msg = "unset"
            /\ conversions = <<>>
            /\ uart_tx = <<>>
            /\ delays = <<>>

C8_Witness ==
    /\ pc = "Error_Handler"
    /\ hal_ret["HAL_ADC_Init"] = "HAL_OK"
    /\ hal_ret["HAL_ADC_ConfigChannel"] = "HAL_OK"
    /\ hal_ret["HAL_UART_Init"] = "HAL_ERROR"

\* C9: a failed conversion wait is followed by another conversion wait, with
\* nothing read, formatted, transmitted or delayed in between, and
\* Error_Handler is entered from the initialisation calls only.
C9_FailedWaitIsSkipped ==
    /\ [][(pc = "HAL_ADC_PollForConversion"
             /\ hal_ret'["HAL_ADC_PollForConversion"] # "HAL_OK")
          => /\ pc' = "HAL_ADC_PollForConversion"
             /\ UNCHANGED <<adc_dr, adc_value, msg, conversions, uart_tx, delays>>]_vars
    /\ [][(pc' = "Error_Handler" /\ pc # "Error_Handler")
          => pc \in {"HAL_ADC_Init", "HAL_ADC_ConfigChannel", "HAL_UART_Init"}]_vars
    /\ [](pc = "Error_Handler" => hal_ret["HAL_ADC_PollForConversion"] = "none")

C9_Witness ==
    /\ pc = "HAL_ADC_PollForConversion"
    /\ hal_ret["HAL_ADC_PollForConversion"] = "HAL_ERROR"
    /\ Len(conversions) = 2
    /\ Len(uart_tx) = 2
    /\ Len(delays) = 2

===========================================================================
